---- MODULE Spec2Model ----
(***************************************************************************)
(* Model of the Graph container of NetworkXJS (class Graph): three Maps    *)
(* adj, nodesData and edgesData, and the methods that read and write them. *)
(* A node id is a JavaScript value; text is a sequence of one-character    *)
(* strings so that the typed-id and edge-key strings are built, sorted and *)
(* parsed the way the code builds, sorts and parses them.                  *)
(***************************************************************************)
EXTENDS Integers, Sequences, FiniteSets, TLC

\* adj, nodesData, edgesData: the three Maps of the Graph object
\* last:    the last call made on it and how it ended
\* heap:    the fields of the attribute objects, where they are followed by
\*          reference (SpecRef)
\* removed: the nodes and edges removed earlier, where they are followed
\*          (SpecHist)
VARIABLES adj, nodesData, edgesData, last, heap, removed

vars == <<adj, nodesData, edgesData, last, heap, removed>>

(* ---------------------------- bounds ----------------------------------- *)
MaxEdges == 2
MaxItems == 2
MaxRemoved == 2

(* ------------------------- JavaScript values --------------------------- *)
\* typeof tag, numeric value, text (sequence of characters); the text of a
\* number is its fraction digits, "NaN" for NaN
NumId(n) == [kind |-> "number", num |-> n, str |-> <<>>]
FracId(n, frac) == [kind |-> "number", num |-> n, str |-> <<".">> \o frac]
StrId(s) == [kind |-> "string", num |-> 0, str |-> s]
NaNId == [kind |-> "number", num |-> 0, str |-> <<"NaN">>]
NullId == [kind |-> "object", num |-> 0, str |-> <<>>]
NoId == [kind |-> "undefined", num |-> 0, str |-> <<>>]
TrueId == [kind |-> "boolean", num |-> 1, str |-> <<>>]
FalseId == [kind |-> "boolean", num |-> 0, str |-> <<>>]
Bool(b) == IF b THEN TrueId ELSE FalseId
ObjId == [kind |-> "object", num |-> 1, str |-> <<>>]

N1 == NumId(1)
S1 == StrId(<<"1">>)
T2 == StrId(<<"1", "|", "s", ":", "1">>)
T3 == StrId(<<"1", "|", "s", ":", "1", "|", "s", ":", "1">>)
F15 == FracId(1, <<"5">>)

ValidIds == {N1, S1, T2, T3, F15}
InvalidIds == {NullId, NoId, TrueId, ObjId}
Ids == ValidIds \cup InvalidIds

EmptyAttr == [f \in {} |-> 0]
A1 == [f \in {"a"} |-> 1]
A2B2 == [f \in {"a", "b"} |-> 2]
\* the ids one graph is built from: the two kinds of "1", text with '|', or
\* a number with a fraction
Families == {{N1, S1}, {S1, T2, T3}, {F15}}

\* attribute arguments: the calls that name the number 1 are given every
\* record, the others the default one or { a: 1 }
NodeAttrs(id) == IF id = N1 THEN {EmptyAttr, A1} ELSE {EmptyAttr}
EdgeAttrs(u, v) ==
  IF {u, v} \subseteq {N1, S1, T2, T3}
  THEN (IF N1 \in {u, v} THEN {EmptyAttr, A1, A2B2} ELSE {EmptyAttr, A1})
  ELSE {EmptyAttr}

(* ------------------------- string primitives --------------------------- *)
\* UTF-16 code unit of a character
Code(c) ==
  CASE c = "-" -> 45 [] c = "." -> 46
    [] c = "0" -> 48 [] c = "1" -> 49 [] c = "2" -> 50 [] c = "3" -> 51
    [] c = "4" -> 52 [] c = "5" -> 53 [] c = "6" -> 54 [] c = "7" -> 55
    [] c = "8" -> 56 [] c = "9" -> 57
    [] c = ":" -> 58
    [] c = "N" -> 78
    [] c = "a" -> 97 [] c = "b" -> 98
    [] c = "l" -> 108 [] c = "n" -> 110 [] c = "s" -> 115 [] c = "u" -> 117
    [] c = "|" -> 124

Digit(d) == SubSeq(<<"0", "1", "2", "3", "4", "5", "6", "7", "8", "9">>, d + 1, d + 1)

RECURSIVE NatToStr(_)
NatToStr(n) == IF n < 10 THEN Digit(n) ELSE NatToStr(n \div 10) \o Digit(n % 10)

\* `${id}` for a number
NumToStr(x) ==
  IF x.str = <<"NaN">> THEN <<"N", "a", "N">>
  ELSE (IF x.num < 0 THEN <<"-">> \o NatToStr(0 - x.num) ELSE NatToStr(x.num)) \o x.str

\* `${id}` for any id the model passes
ToStr(x) ==
  IF x.kind = "number" THEN NumToStr(x)
  ELSE IF x.kind = "string" THEN x.str
  ELSE IF x.kind = "boolean" THEN <<"t", "r", "u", "e">>
  ELSE IF x.kind = "undefined" THEN <<"u", "n", "d", "e", "f", "i", "n", "e", "d">>
  ELSE IF x = NullId THEN <<"n", "u", "l", "l">>
  ELSE <<"[", "o", "b", "j", "e", "c", "t", " ", "O", "b", "j", "e", "c", "t", "]">>

IsDigit(c) == Code(c) >= 48 /\ Code(c) <= 57

RECURSIVE DigitsToNat(_)
DigitsToNat(s) ==
  IF s = <<>> THEN 0
  ELSE 10 * DigitsToNat(SubSeq(s, 1, Len(s) - 1)) + (Code(s[Len(s)]) - 48)

AllDigits(s) == s # <<>> /\ \A i \in 1..Len(s) : IsDigit(s[i])

\* digits '.' digits, the last digit not 0
IsDecimal(s) ==
  \E p \in 1..Len(s) :
    /\ s[p] = "."
    /\ AllDigits(SubSeq(s, 1, p - 1))
    /\ AllDigits(SubSeq(s, p + 1, Len(s)))
    /\ s[Len(s)] # "0"

IntPart(s) == SubSeq(s, 1, (CHOOSE p \in 1..Len(s) : s[p] = ".") - 1)

\* Number(text)
ToNumber(s) ==
  IF s = <<>> THEN NumId(0)
  ELSE IF AllDigits(s) THEN NumId(DigitsToNat(s))
  ELSE IF s[1] = "-" /\ AllDigits(Tail(s)) THEN NumId(0 - DigitsToNat(Tail(s)))
  ELSE IF IsDecimal(s) THEN FracId(DigitsToNat(IntPart(s)), SubSeq(s, Len(IntPart(s)) + 2, Len(s)))
  ELSE NaNId

\* a < b in the order of Array.prototype.sort() without a comparator
RECURSIVE StrLess(_, _)
StrLess(a, b) ==
  IF b = <<>> THEN FALSE
  ELSE IF a = <<>> THEN TRUE
  ELSE IF Code(a[1]) # Code(b[1]) THEN Code(a[1]) < Code(b[1])
  ELSE StrLess(Tail(a), Tail(b))

StartsWith(s, p) == Len(s) >= Len(p) /\ SubSeq(s, 1, Len(p)) = p

\* s.slice(k)
Slice(s, k) == SubSeq(s, k + 1, Len(s))

\* s.split('|')
RECURSIVE Split(_)
Split(s) ==
  IF \A i \in 1..Len(s) : s[i] # "|" THEN <<s>>
  ELSE LET p == CHOOSE i \in 1..Len(s) : s[i] = "|" /\ \A j \in 1..(i - 1) : s[j] # "|"
       IN <<SubSeq(s, 1, p - 1)>> \o Split(SubSeq(s, p + 1, Len(s)))

(* ------------------------------ Map helpers ---------------------------- *)
MapSet(m, k, val) == [x \in (DOMAIN m) \cup {k} |-> IF x = k THEN val ELSE m[x]]
MapDelete(m, k) == [x \in (DOMAIN m) \ {k} |-> m[x]]
EmptyMap == [x \in {} |-> 0]

\* { ...attr }
Spread(attr) == [f \in DOMAIN attr |-> attr[f]]

\* Object.assign(target, attr)
Assign(target, attr) ==
  [f \in (DOMAIN target) \cup (DOMAIN attr) |-> IF f \in DOMAIN attr THEN attr[f] ELSE target[f]]

(* ------------------------------ class Graph ---------------------------- *)
\* the state of one Graph object
G == [adj |-> adj, nodesData |-> nodesData, edgesData |-> edgesData]

EmptyGraph == [adj |-> EmptyMap, nodesData |-> EmptyMap, edgesData |-> EmptyMap]

\* outcome of a call: the state it leaves, the error it throws ("ok" when it
\* returns) and the id its message names
Return(g) == [g |-> g, err |-> "ok", id |-> NoId]
Throw(g, e, id) == [g |-> g, err |-> e, id |-> id]
\* outcome of a query: the value it returns
Answer(g, ret) == [g |-> g, err |-> "ok", id |-> NoId, ret |-> ret]

\* _checkValidId that takes whole numbers only
_checkValidId_integer(id) == id.kind = "string" \/ (id.kind = "number" /\ id.str = <<>>)

_checkValidId(id) == id.kind = "string" \/ id.kind = "number"

\* _typedId without the kind prefix
_typedId_untagged(id) == <<"s", ":">> \o ToStr(id)

_typedId(id) ==
  IF id.kind = "number" THEN <<"n", ":">> \o ToStr(id) ELSE <<"s", ":">> \o ToStr(id)

\* _edgeKey without the sort
_edgeKey_unsorted(u, v) == _typedId(u) \o <<"|">> \o _typedId(v)

_edgeKey(u, v) ==
  LET keyU == _typedId(u)
      keyV == _typedId(v)
      sorted == IF StrLess(keyV, keyU) THEN <<keyV, keyU>> ELSE <<keyU, keyV>>
  IN sorted[1] \o <<"|">> \o sorted[2]

\* addNode without the duplicate check
addNode_overwrite(g, id, attr) ==
  IF ~_checkValidId(id) THEN Throw(g, "InvalidIdentifier", id)
  ELSE Return([adj |-> MapSet(g.adj, id, {}),
               nodesData |-> MapSet(g.nodesData, id, Spread(attr)),
               edgesData |-> g.edgesData])

addNode(g, id, attr) ==
  IF ~_checkValidId(id) THEN Throw(g, "InvalidIdentifier", id)
  ELSE IF id \in DOMAIN g.adj THEN Throw(g, "DuplicateNode", id)
  ELSE Return([adj |-> MapSet(g.adj, id, {}),
               nodesData |-> MapSet(g.nodesData, id, Spread(attr)),
               edgesData |-> g.edgesData])

\* an element of the iterable given to addNodesFrom
Item(arr, id, attr) == [arr |-> arr, id |-> id, attr |-> attr]

\* addNodesFrom that undoes the items already added when one fails
RECURSIVE addNodesFrom_rollback(_, _)
addNodesFrom_rollback(g, nodeData) ==
  IF nodeData = <<>> THEN Return(g)
  ELSE LET item == Head(nodeData)
           r == IF item.arr THEN addNode(g, item.id, item.attr)
                ELSE addNode(g, item.id, EmptyAttr)
           rest == addNodesFrom_rollback(r.g, Tail(nodeData))
       IN IF r.err # "ok" THEN r
          ELSE IF rest.err # "ok" THEN Throw(g, rest.err, rest.id)
          ELSE rest

RECURSIVE addNodesFrom(_, _)
addNodesFrom(g, nodeData) ==
  IF nodeData = <<>> THEN Return(g)
  ELSE LET item == Head(nodeData)
           r == IF item.arr THEN addNode(g, item.id, item.attr)
                ELSE addNode(g, item.id, EmptyAttr)
       IN IF r.err # "ok" THEN r ELSE addNodesFrom(r.g, Tail(nodeData))

hasNode(g, id) == id \in DOMAIN g.adj

hasNodeCall(g, id) == Answer(g, Bool(hasNode(g, id)))

removeNode(g, id) ==
  IF id \notin DOMAIN g.adj THEN Throw(g, "NodeNotFound", id)
  ELSE LET nbrs == g.adj[id]
           adj1 == [n \in DOMAIN g.adj |-> IF n \in nbrs THEN g.adj[n] \ {id} ELSE g.adj[n]]
           keys == {_edgeKey(id, nbr) : nbr \in nbrs}
           ed1 == [k \in (DOMAIN g.edgesData) \ keys |-> g.edgesData[k]]
       IN IF ~(nbrs \subseteq DOMAIN g.adj)
          THEN Throw([adj |-> adj1, nodesData |-> g.nodesData, edgesData |-> ed1],
                     "TypeError", id)
          ELSE Return([adj |-> MapDelete(adj1, id),
                       nodesData |-> MapDelete(g.nodesData, id),
                       edgesData |-> ed1])

\* addEdge that links u to v before it looks for v
addEdge_lateCheck(g, u, v, attr) ==
  IF ~_checkValidId(u) THEN Throw(g, "InvalidIdentifier", u)
  ELSE IF ~_checkValidId(v) THEN Throw(g, "InvalidIdentifier", v)
  ELSE IF u \notin DOMAIN g.adj THEN Throw(g, "NodeNotFound", u)
  ELSE LET adj1 == MapSet(g.adj, u, g.adj[u] \cup {v})
           ek == _edgeKey(u, v)
       IN IF v \notin DOMAIN g.adj
          THEN Throw([adj |-> adj1, nodesData |-> g.nodesData, edgesData |-> g.edgesData],
                     "NodeNotFound", v)
          ELSE Return([adj |-> MapSet(adj1, v, adj1[v] \cup {u}),
                       nodesData |-> g.nodesData,
                       edgesData |-> IF ek \notin DOMAIN g.edgesData
                                     THEN MapSet(g.edgesData, ek, Spread(attr))
                                     ELSE MapSet(g.edgesData, ek, Assign(g.edgesData[ek], attr))])

\* addEdge that validates and looks up u before it validates v
addEdge_perEndpoint(g, u, v, attr) ==
  IF ~_checkValidId(u) THEN Throw(g, "InvalidIdentifier", u)
  ELSE IF u \notin DOMAIN g.adj THEN Throw(g, "NodeNotFound", u)
  ELSE IF ~_checkValidId(v) THEN Throw(g, "InvalidIdentifier", v)
  ELSE IF v \notin DOMAIN g.adj THEN Throw(g, "NodeNotFound", v)
  ELSE addEdge_lateCheck(g, u, v, attr)

addEdge(g, u, v, attr) ==
  IF ~_checkValidId(u) THEN Throw(g, "InvalidIdentifier", u)
  ELSE IF ~_checkValidId(v) THEN Throw(g, "InvalidIdentifier", v)
  ELSE IF u \notin DOMAIN g.adj THEN Throw(g, "NodeNotFound", u)
  ELSE IF v \notin DOMAIN g.adj THEN Throw(g, "NodeNotFound", v)
  ELSE LET adj1 == MapSet(g.adj, u, g.adj[u] \cup {v})
           adj2 == MapSet(adj1, v, adj1[v] \cup {u})
           ek == _edgeKey(u, v)
       IN Return([adj |-> adj2,
                  nodesData |-> g.nodesData,
                  edgesData |-> IF ek \notin DOMAIN g.edgesData
                                THEN MapSet(g.edgesData, ek, Spread(attr))
                                ELSE MapSet(g.edgesData, ek, Assign(g.edgesData[ek], attr))])

hasEdge(g, u, v) == IF u \notin DOMAIN g.adj THEN FALSE ELSE v \in g.adj[u]

\* hasEdge without the test for u: adj.get(u) is undefined for an unknown u
hasEdgeCall_noGuard(g, u, v) ==
  IF u \notin DOMAIN g.adj THEN Throw(g, "TypeError", u) ELSE Answer(g, Bool(v \in g.adj[u]))

hasEdgeCall(g, u, v) == Answer(g, Bool(hasEdge(g, u, v)))

\* edgesData.get(key) may be undefined
Undefined == [f \in {"undefined"} |-> 0]
MapGet(m, k) == IF k \in DOMAIN m THEN m[k] ELSE Undefined

\* the record edge(u, v) returns when it does not throw
edge(g, u, v) == MapGet(g.edgesData, _edgeKey(u, v))

edgeCall(g, u, v) ==
  IF ~hasEdge(g, u, v) THEN Throw(g, "EdgeNotFound", u) ELSE Return(g)

nodeCall(g, id) ==
  IF id \notin DOMAIN g.adj THEN Throw(g, "NodeNotFound", id) ELSE Return(g)

\* removeEdge that forgets the reciprocal adjacency entry
removeEdge_oneSided(g, u, v) ==
  IF ~hasEdge(g, u, v) THEN Throw(g, "EdgeNotFound", u)
  ELSE Return([adj |-> MapSet(g.adj, u, g.adj[u] \ {v}),
               nodesData |-> g.nodesData,
               edgesData |-> MapDelete(g.edgesData, _edgeKey(u, v))])

removeEdge(g, u, v) ==
  IF ~hasEdge(g, u, v) THEN Throw(g, "EdgeNotFound", u)
  ELSE LET adj1 == MapSet(g.adj, u, g.adj[u] \ {v})
       IN IF v \notin DOMAIN g.adj
          THEN Throw([adj |-> adj1, nodesData |-> g.nodesData, edgesData |-> g.edgesData],
                     "TypeError", v)
          ELSE Return([adj |-> MapSet(adj1, v, adj1[v] \ {u}),
                       nodesData |-> g.nodesData,
                       edgesData |-> MapDelete(g.edgesData, _edgeKey(u, v))])

neighbors(g, id) == g.adj[id]

neighborsCall(g, id) ==
  IF id \notin DOMAIN g.adj THEN Throw(g, "NodeNotFound", id) ELSE Return(g)

numberOfNodes(g) == Cardinality(DOMAIN g.adj)

numberOfNodesCall(g) == Answer(g, NumId(numberOfNodes(g)))

numberOfEdges(g) == Cardinality(DOMAIN g.edgesData)

numberOfEdgesCall(g) == Answer(g, NumId(numberOfEdges(g)))

\* one [u, v, attr] of edges(), parsed back from the key; attr is the stored
\* object itself, which the entry's key identifies
Triple(key, attr) ==
  LET parts == Split(key)
      uTyped == parts[1]
      vTyped == parts[2]
      u == IF StartsWith(uTyped, <<"n", ":">>) THEN ToNumber(Slice(uTyped, 2))
           ELSE StrId(Slice(uTyped, 2))
      v == IF StartsWith(vTyped, <<"n", ":">>) THEN ToNumber(Slice(vTyped, 2))
           ELSE StrId(Slice(vTyped, 2))
  IN [u |-> u, v |-> v, attr |-> attr, key |-> key]

RECURSIVE EdgesOf(_, _)
EdgesOf(m, keys) ==
  IF keys = {} THEN <<>>
  ELSE LET key == CHOOSE k \in keys : \A k2 \in keys : k = k2 \/ StrLess(k, k2)
       IN <<Triple(key, m[key])>> \o EdgesOf(m, keys \ {key})

edges(g) == EdgesOf(g.edgesData, DOMAIN g.edgesData)

(* ------------------------------- inputs -------------------------------- *)
Items == {Item(TRUE, N1, A1), Item(FALSE, S1, EmptyAttr), Item(FALSE, NullId, EmptyAttr)}

RECURSIVE SeqsUpTo(_, _)
SeqsUpTo(S, n) ==
  IF n = 0 THEN {<<>>}
  ELSE LET shorter == SeqsUpTo(S, n - 1)
       IN shorter \cup {Append(q, x) : q \in shorter, x \in S}

ItemSeqs == SeqsUpTo(Items, MaxItems)

\* number of unordered adjacent pairs
PairCount(g) ==
  Cardinality(UNION {{{u, v} : v \in g.adj[u]} : u \in DOMAIN g.adj})

WithinBounds(g) ==
  /\ \E F \in Families : DOMAIN g.adj \subseteq F
  /\ PairCount(g) <= MaxEdges

(* ------------------------------- actions ------------------------------- *)
\* the last call: a call that returned with its arguments, a call that threw
\* with its error, the id the message names and the iterable it was given
Returned(op, u, v, attr, items) ==
  [op |-> op, u |-> u, v |-> v, attr |-> attr, items |-> items, err |-> "ok", id |-> NoId,
   ret |-> NoId]
Threw(op, items, r) ==
  [op |-> op, u |-> NoId, v |-> NoId, attr |-> EmptyAttr, items |-> items, err |-> r.err, id |-> r.id,
   ret |-> NoId]
\* a query that returned, with the value it returned
Answered(op, r) ==
  [op |-> op, u |-> NoId, v |-> NoId, attr |-> EmptyAttr, items |-> <<>>, err |-> "ok", id |-> NoId,
   ret |-> r.ret]

Apply(op, u, v, attr, items, result) ==
  \E r \in {result} :
    /\ IF r.g = G THEN TRUE ELSE WithinBounds(r.g)
    /\ adj' = r.g.adj
    /\ nodesData' = r.g.nodesData
    /\ edgesData' = r.g.edgesData
    /\ last' = IF r.err = "ok" THEN Returned(op, u, v, attr, items) ELSE Threw(op, items, r)
    /\ heap' = heap
    /\ removed' = removed

Ask(op, result) ==
  \E r \in {result} :
    /\ adj' = r.g.adj
    /\ nodesData' = r.g.nodesData
    /\ edgesData' = r.g.edgesData
    /\ last' = IF r.err = "ok" THEN Answered(op, r) ELSE Threw(op, <<>>, r)
    /\ heap' = heap
    /\ removed' = removed

\* the nodes and the edges that were removed and not added again since
NoneRemoved == [nodes |-> {}, edges |-> {}]

Init ==
  /\ adj = EmptyMap
  /\ nodesData = EmptyMap
  /\ edgesData = EmptyMap
  /\ last = Returned("new", NoId, NoId, EmptyAttr, <<>>)
  /\ heap = EmptyMap
  /\ removed = NoneRemoved

AddNode == \E id \in Ids : \E attr \in NodeAttrs(id) :
  Apply("addNode", id, NoId, attr, <<>>, addNode(G, id, attr))

AddNodesFrom == \E items \in ItemSeqs :
  Apply("addNodesFrom", NoId, NoId, EmptyAttr, items, addNodesFrom(G, items))

NodeQuery == \E id \in ValidIds :
  Apply("node", id, NoId, EmptyAttr, <<>>, nodeCall(G, id))

RemoveNode == \E id \in ValidIds :
  Apply("removeNode", id, NoId, EmptyAttr, <<>>, removeNode(G, id))

AddEdge == \E u \in Ids, v \in Ids : \E attr \in EdgeAttrs(u, v) :
  Apply("addEdge", u, v, attr, <<>>, addEdge(G, u, v, attr))

EdgeQuery == \E u \in ValidIds, v \in ValidIds :
  Apply("edge", u, v, EmptyAttr, <<>>, edgeCall(G, u, v))

RemoveEdge == \E u \in ValidIds, v \in ValidIds :
  Apply("removeEdge", u, v, EmptyAttr, <<>>, removeEdge(G, u, v))

Neighbors == \E id \in ValidIds :
  Apply("neighbors", id, NoId, EmptyAttr, <<>>, neighborsCall(G, id))

HasNode == \E id \in Ids : Ask("hasNode", hasNodeCall(G, id))

HasEdge == \E u \in Ids, v \in Ids : Ask("hasEdge", hasEdgeCall(G, u, v))

NumberOfNodes == Ask("numberOfNodes", numberOfNodesCall(G))

NumberOfEdges == Ask("numberOfEdges", numberOfEdgesCall(G))

Next ==
  \/ AddNode
  \/ AddNodesFrom
  \/ NodeQuery
  \/ RemoveNode
  \/ AddEdge
  \/ EdgeQuery
  \/ RemoveEdge
  \/ Neighbors
  \/ HasNode
  \/ HasEdge
  \/ NumberOfNodes
  \/ NumberOfEdges

Spec == Init /\ [][Next]_vars

TypeOK ==
  /\ DOMAIN adj \subseteq ValidIds
  /\ DOMAIN nodesData = DOMAIN adj

(* ----------------------- attribute objects by reference ---------------- *)
\* Above, an entry of nodesData or edgesData holds the fields of its object.
\* Here it holds a reference, and heap gives the fields of every object: the
\* objects the graph stores and the attrs object the caller keeps.
Obj(slot, key) == [slot |-> slot, key |-> key]
CallerAttrs == Obj("attrs", <<>>)

\* the attr parameter: <<>> when the argument is not given, <<ref>> otherwise
AttrArgs == {<<>>, <<CallerAttrs>>}
AttrOf(h, arg) == IF arg = <<>> THEN EmptyAttr ELSE h[arg[1]]

RefReturn(g, h) == [g |-> g, heap |-> h, err |-> "ok", id |-> NoId]
RefThrow(g, h, e, id) == [g |-> g, heap |-> h, err |-> e, id |-> id]

addNodeRef(g, h, id, arg) ==
  IF ~_checkValidId(id) THEN RefThrow(g, h, "InvalidIdentifier", id)
  ELSE IF id \in DOMAIN g.adj THEN RefThrow(g, h, "DuplicateNode", id)
  ELSE LET new == Obj("node", _typedId(id))
       IN RefReturn([adj |-> MapSet(g.adj, id, {}),
                     nodesData |-> MapSet(g.nodesData, id, new),
                     edgesData |-> g.edgesData],
                    MapSet(h, new, Spread(AttrOf(h, arg))))

addEdgeRef(g, h, u, v, arg) ==
  IF ~_checkValidId(u) THEN RefThrow(g, h, "InvalidIdentifier", u)
  ELSE IF ~_checkValidId(v) THEN RefThrow(g, h, "InvalidIdentifier", v)
  ELSE IF u \notin DOMAIN g.adj THEN RefThrow(g, h, "NodeNotFound", u)
  ELSE IF v \notin DOMAIN g.adj THEN RefThrow(g, h, "NodeNotFound", v)
  ELSE LET adj1 == MapSet(g.adj, u, g.adj[u] \cup {v})
           adj2 == MapSet(adj1, v, adj1[v] \cup {u})
           ek == _edgeKey(u, v)
           new == Obj("edge", ek)
       IN IF ek \notin DOMAIN g.edgesData
          THEN RefReturn([adj |-> adj2, nodesData |-> g.nodesData,
                          edgesData |-> MapSet(g.edgesData, ek, new)],
                         MapSet(h, new, Spread(AttrOf(h, arg))))
          ELSE RefReturn([adj |-> adj2, nodesData |-> g.nodesData, edgesData |-> g.edgesData],
                         MapSet(h, g.edgesData[ek], Assign(h[g.edgesData[ek]], AttrOf(h, arg))))

\* the object node(id) and edge(u, v) return
nodeRef(g, id) == g.nodesData[id]
edgeRef(g, u, v) == g.edgesData[_edgeKey(u, v)]

\* obj.a = val, by whoever holds the reference
SetField(h, ref, val) == MapSet(h, ref, Assign(h[ref], [f \in {"a"} |-> val]))

FieldValues == {2}

\* the ids of the graphs whose objects are followed
RefIds == {S1, T2, T3}

ApplyRef(op, u, v, result) ==
  \E r \in {result} :
    /\ IF r.g = G THEN TRUE ELSE WithinBounds(r.g)
    /\ adj' = r.g.adj
    /\ nodesData' = r.g.nodesData
    /\ edgesData' = r.g.edgesData
    /\ heap' = r.heap
    /\ removed' = removed
    /\ last' = IF r.err = "ok" THEN Returned(op, u, v, EmptyAttr, <<>>) ELSE Threw(op, <<>>, r)

RefInit ==
  /\ adj = EmptyMap
  /\ nodesData = EmptyMap
  /\ edgesData = EmptyMap
  /\ last = Returned("new", NoId, NoId, EmptyAttr, <<>>)
  /\ heap = MapSet(EmptyMap, CallerAttrs, A1)
  /\ removed = NoneRemoved

RefAddNode == \E id \in RefIds, arg \in AttrArgs :
  ApplyRef("addNode", id, NoId, addNodeRef(G, heap, id, arg))

RefAddEdge == \E u \in RefIds, v \in RefIds, arg \in AttrArgs :
  ApplyRef("addEdge", u, v, addEdgeRef(G, heap, u, v, arg))

\* attrs.a = val
EditAttrs == \E val \in FieldValues :
  ApplyRef("editAttrs", NoId, NoId, RefReturn(G, SetField(heap, CallerAttrs, val)))

\* g.node(id).a = val
EditNode == \E id \in DOMAIN adj, val \in FieldValues :
  ApplyRef("editNode", id, NoId, RefReturn(G, SetField(heap, nodeRef(G, id), val)))

\* g.edge(u, v).a = val
EditEdge == \E u \in DOMAIN adj, v \in DOMAIN adj, val \in FieldValues :
  /\ hasEdge(G, u, v)
  /\ ApplyRef("editEdge", u, v, RefReturn(G, SetField(heap, edgeRef(G, u, v), val)))

RefNext ==
  \/ RefAddNode
  \/ RefAddEdge
  \/ EditAttrs
  \/ EditNode
  \/ EditEdge

SpecRef == RefInit /\ [][RefNext]_vars

(* ----------------------- calls after a removal -------------------------- *)
\* the removed nodes and edges after the call op(u, v) has returned from g
Removed(rem, g, op, u, v) ==
  IF op = "removeEdge" THEN [rem EXCEPT !.edges = @ \cup {{u, v}}]
  ELSE IF op = "removeNode"
    THEN [nodes |-> rem.nodes \cup {u}, edges |-> rem.edges \cup {{u, n} : n \in g.adj[u]}]
  ELSE IF op = "addEdge" THEN [rem EXCEPT !.edges = @ \ {{u, v}}]
  ELSE IF op = "addNode" THEN [rem EXCEPT !.nodes = @ \ {u}]
  ELSE rem

HistApply(op, u, v, attr, result) ==
  \E r \in {result} :
    /\ IF r.g = G THEN TRUE ELSE WithinBounds(r.g)
    /\ adj' = r.g.adj
    /\ nodesData' = r.g.nodesData
    /\ edgesData' = r.g.edgesData
    /\ last' = IF r.err = "ok" THEN Returned(op, u, v, attr, <<>>) ELSE Threw(op, <<>>, r)
    /\ heap' = heap
    /\ removed' = IF r.err = "ok" THEN Removed(removed, G, op, u, v) ELSE removed
    /\ Cardinality(removed'.nodes) + Cardinality(removed'.edges) <= MaxRemoved

HistAddNode == \E id \in ValidIds : \E attr \in NodeAttrs(id) :
  HistApply("addNode", id, NoId, attr, addNode(G, id, attr))

HistRemoveNode == \E id \in ValidIds :
  HistApply("removeNode", id, NoId, EmptyAttr, removeNode(G, id))

HistAddEdge == \E u \in ValidIds, v \in ValidIds : \E attr \in EdgeAttrs(u, v) :
  HistApply("addEdge", u, v, attr, addEdge(G, u, v, attr))

HistRemoveEdge == \E u \in ValidIds, v \in ValidIds :
  HistApply("removeEdge", u, v, EmptyAttr, removeEdge(G, u, v))

HistNext ==
  \/ HistAddNode
  \/ HistRemoveNode
  \/ HistAddEdge
  \/ HistRemoveEdge

SpecHist == Init /\ [][HistNext]_vars

(* ------------------------------- claims -------------------------------- *)
\* the ids edges() reports as endpoints of the stored attribute records
EdgeEndpoints(g) == UNION {{edges(g)[i].u, edges(g)[i].v} : i \in 1..Len(edges(g))}

\* the ids found in the neighbor sets
AdjacencyRefs(g) == UNION {g.adj[n] : n \in DOMAIN g.adj}

\* the part of C1 that is about the neighbor sets alone
AdjacencyRefsAreNodes == AdjacencyRefs(G) \subseteq DOMAIN adj

AddEdgeKeepsNodes == last'.op = "addEdge" => numberOfNodes(G') = numberOfNodes(G)

\* C1: every id in a neighbor set or reported as an endpoint of a stored edge
\* attribute record is a node, and no addEdge call changes the number of nodes.
C1_ReferencedIdsAreNodes ==
  /\ [](AdjacencyRefs(G) \cup EdgeEndpoints(G) \subseteq DOMAIN adj)
  /\ [][AddEdgeKeepsNodes]_vars

\* the calls that returned
Did(op) == last'.op = op /\ last'.err = "ok"

\* C2: adjacency is symmetric in every reachable state, so hasEdge(u, v) and
\* hasEdge(v, u) agree for all ids.
C2_AdjacencySymmetric ==
  \A u \in Ids, v \in Ids : hasEdge(G, u, v) <=> hasEdge(G, v, u)

C2_Witness ==
  /\ last.op \in {"removeEdge", "removeNode"}
  /\ last.err = "ok"
  /\ \E u \in DOMAIN adj, v \in DOMAIN adj : u # v /\ hasEdge(G, u, v)

RemoveNodeRemovesIncident ==
  Did("removeNode") =>
    LET u == last'.u
    IN /\ hasNode(G, u)
       /\ ~hasNode(G', u)
       /\ numberOfNodes(G') = numberOfNodes(G) - 1
       /\ \A v \in neighbors(G, u) :
            /\ ~hasEdge(G', u, v)
            /\ ~hasEdge(G', v, u)
            /\ hasNode(G', v) => u \notin neighbors(G', v)
       /\ u \notin EdgeEndpoints(G')

\* C3: removeNode(u) on a node removes u, lowers the node count by one, removes
\* u from every neighbor's set, and leaves no triple of edges() that mentions u.
C3_RemoveNodeRemovesIncident == [][RemoveNodeRemovesIncident]_vars

Rejections == {"InvalidIdentifier", "DuplicateNode", "NodeNotFound", "EdgeNotFound"}
SingleCalls == {"addNode", "node", "removeNode", "addEdge", "edge", "removeEdge", "neighbors"}

RejectedCallChangesNothing ==
  /\ last'.op \in SingleCalls => last'.err \in Rejections \cup {"ok"}
  /\ (last'.op \in SingleCalls /\ last'.err \in Rejections) => G' = G

SameRecord(u, v, x, y) == _edgeKey(u, v) = _edgeKey(x, y)

AddEdgeIsSymmetric ==
  Did("addEdge") =>
    LET u == last'.u
        v == last'.v
    IN /\ hasEdge(G', u, v) /\ hasEdge(G', v, u)
       /\ SameRecord(u, v, v, u)
       /\ edge(G', u, v) # Undefined
       /\ edge(G', u, v) = edge(G', v, u)
       /\ \A f \in DOMAIN last'.attr : edge(G', v, u)[f] = last'.attr[f]
       /\ \A x \in Ids, y \in Ids :
            hasEdge(G, x, y) => /\ hasEdge(G', x, y) /\ hasEdge(G', y, x)
                                /\ edge(G', x, y) = edge(G', y, x)

\* C5: after addEdge(u, v, attrs) both hasEdge(u, v) and hasEdge(v, u) hold and
\* edge(u, v) and edge(v, u) are the same record, which holds what attrs wrote;
\* a later addEdge keeps this true of every edge.
C5_AddEdgeIsSymmetric == [][AddEdgeIsSymmetric]_vars

C5_Witness ==
  /\ last.op = "addEdge" /\ last.err = "ok"
  /\ last.u = S1 /\ last.v = N1 /\ last.attr = A1
  /\ edge(G, N1, S1) = [f \in {"a", "b"} |-> IF f = "a" THEN 1 ELSE 2]

RedeclaredEdgeIsMerged ==
  (Did("addEdge") /\ hasEdge(G, last'.u, last'.v)) =>
    LET u == last'.u
        v == last'.v
        attrs == last'.attr
        old == edge(G, u, v)
        new == edge(G', u, v)
    IN /\ numberOfEdges(G') = numberOfEdges(G)
       /\ adj' = adj
       /\ old # Undefined
       /\ DOMAIN new = (DOMAIN old) \cup (DOMAIN attrs)
       /\ \A f \in DOMAIN new : new[f] = IF f \in DOMAIN attrs THEN attrs[f] ELSE old[f]

\* C6: addEdge(u, v, attrs) on an existing edge, in either argument order,
\* leaves numberOfEdges() and the neighbor sets unchanged and merges attrs into
\* the stored record: fields named in attrs take the new value, the others stay.
C6_RedeclaredEdgeIsMerged == [][RedeclaredEdgeIsMerged]_vars

AddNodeAddsOnce ==
  last'.op = "addNode" =>
    /\ \A a \in ValidIds : \A attr \in NodeAttrs(a) :
         addNode(G, a, attr).err = IF hasNode(G, a) THEN "DuplicateNode" ELSE "ok"
    /\ last'.err = "ok" =>
         LET a == last'.u
         IN /\ ~hasNode(G, a)
            /\ hasNode(G', a)
            /\ numberOfNodes(G') = numberOfNodes(G) + 1
            /\ neighbors(G', a) = {}
    /\ last'.err = "DuplicateNode" =>
         LET a == last'.id
         IN /\ hasNode(G, a)
            /\ numberOfNodes(G') = numberOfNodes(G)
            /\ nodesData'[a] = nodesData[a]
            /\ neighbors(G', a) = neighbors(G, a)

\* C7: addNode(a) of a valid id not in the graph makes hasNode(a) true, raises
\* numberOfNodes() by one and gives a an empty neighbor set; addNode(a) of a
\* node fails with DuplicateNode and changes neither the count nor a's record
\* or neighbor set.
C7_AddNodeAddsOnce == [][AddNodeAddsOnce]_vars

C7_Witness ==
  /\ last.op = "addNode"
  /\ last.err = "DuplicateNode"
  /\ hasNode(G, last.id)
  /\ nodesData[last.id] = A1
  /\ neighbors(G, last.id) # {}

\* item k of items fails when its id is invalid, already a node of g, or the
\* id of an earlier item
ItemFails(g, items, k) ==
  \/ ~_checkValidId(items[k].id)
  \/ hasNode(g, items[k].id)
  \/ \E j \in 1..(k - 1) : items[j].id = items[k].id

\* index of the first failing item, Len(items) + 1 when there is none
FirstFailure(g, items) ==
  CHOOSE k \in 1..(Len(items) + 1) :
    /\ \A j \in 1..(k - 1) : ~ItemFails(g, items, j)
    /\ k <= Len(items) => ItemFails(g, items, k)

AddNodesFromIsSequential ==
  last'.op = "addNodesFrom" =>
    LET items == last'.items
        k == FirstFailure(G, items)
        added == {items[j].id : j \in 1..(k - 1)}
    IN /\ (last'.err = "ok") <=> (k = Len(items) + 1)
       /\ k <= Len(items) =>
            /\ last'.id = items[k].id
            /\ last'.err = IF _checkValidId(items[k].id) THEN "DuplicateNode"
                           ELSE "InvalidIdentifier"
       /\ DOMAIN adj' = (DOMAIN adj) \cup added
       /\ \A j \in 1..(k - 1) :
            /\ ~hasNode(G, items[j].id)
            /\ nodesData'[items[j].id] = IF items[j].arr THEN items[j].attr ELSE EmptyAttr
            /\ neighbors(G', items[j].id) = {}
       /\ \A n \in DOMAIN adj : adj'[n] = adj[n] /\ nodesData'[n] = nodesData[n]
       /\ edgesData' = edgesData

\* C8: addNodesFrom(items) adds the items in order; when item k is the first
\* whose addNode fails the call fails with that error, the items before k are
\* added with their attribute records and item k and the later ones are not.
C8_AddNodesFromIsSequential == [][AddNodesFromIsSequential]_vars

C8_Witness ==
  /\ last.op = "addNodesFrom"
  /\ last.err = "InvalidIdentifier"
  /\ last.items = <<Item(TRUE, N1, A1), Item(FALSE, NullId, EmptyAttr)>>
  /\ hasNode(G, N1)
  /\ nodesData[N1] = A1
  /\ ~hasNode(G, NullId)

\* C9: numberOfEdges() is the length of edges(), and every triple of edges()
\* names two nodes u, v with hasEdge(u, v) and edge(u, v) the triple's record.
C9_EdgesRoundTrip ==
  /\ numberOfEdges(G) = Len(edges(G))
  /\ \A i \in 1..Len(edges(G)) :
       LET t == edges(G)[i]
       IN /\ hasNode(G, t.u) /\ hasNode(G, t.v)
          /\ hasEdge(G, t.u, t.v)
          /\ _edgeKey(t.u, t.v) = t.key
          /\ edge(G, t.u, t.v) = t.attr

Other(id) == IF id = N1 THEN S1 ELSE N1

\* a call on the edge {u, v} with u one of 1 and "1" leaves the edge of the
\* other one with v as it was
OtherEdgeUntouched(u, v) ==
  (u \in {N1, S1} /\ {Other(u), v} # {u, v}) =>
    /\ hasEdge(G', Other(u), v) = hasEdge(G, Other(u), v)
    /\ hasEdge(G', v, Other(u)) = hasEdge(G, v, Other(u))
    /\ edge(G', Other(u), v) = edge(G, Other(u), v)

KindsNeverCollide ==
  /\ last'.op = "addNode" =>
       /\ N1 # S1
       /\ \A a \in {N1, S1} : \A attr \in NodeAttrs(a) :
            hasNode(G, Other(a)) /\ ~hasNode(G, a) => addNode(G, a, attr).err = "ok"
       /\ (last'.err = "ok" /\ last'.u \in {N1, S1} /\ hasNode(G, Other(last'.u))) =>
            /\ hasNode(G', N1) /\ hasNode(G', S1)
            /\ numberOfNodes(G') = numberOfNodes(G) + 1
            /\ nodesData'[last'.u] = last'.attr
            /\ nodesData'[Other(last'.u)] = nodesData[Other(last'.u)]
            /\ neighbors(G', Other(last'.u)) = neighbors(G, Other(last'.u))
  /\ (Did("addEdge") \/ Did("removeEdge")) =>
       /\ \A x \in ValidIds : ~SameRecord(N1, x, S1, x)
       /\ OtherEdgeUntouched(last'.u, last'.v)
       /\ OtherEdgeUntouched(last'.v, last'.u)

\* C10: 1 and "1" are different ids: each can be added while the other is a
\* node, with its own attribute record and neighbor set, and for every x the
\* edges {1, x} and {"1", x} have different records, so that adding, merging
\* into or removing one leaves the other as it was.
C10_KindsNeverCollide == [][KindsNeverCollide]_vars

C10_Witness ==
  /\ last.op = "removeEdge" /\ last.err = "ok"
  /\ last.u = N1 /\ last.v = N1
  /\ hasNode(G, N1) /\ hasNode(G, S1)
  /\ nodesData[N1] # nodesData[S1]
  /\ hasEdge(G, S1, N1)
  /\ edge(G, S1, N1) = A1

IsText(id) == id.kind = "string"
IsNumber(id) == id.kind = "number"
IsIntegral(id) == id.kind = "number" /\ id.str = <<>>

\* the ids an addNode or addEdge call was given, when it returned
CallIds == IF last'.op = "addNode" THEN {last'.u} ELSE {last'.u, last'.v}

RejectsNonIntegral ==
  last'.op \in {"addNode", "addEdge"} =>
    /\ last'.err = "ok" => \A id \in CallIds : IsIntegral(id) \/ IsText(id)
    /\ last'.err = "InvalidIdentifier" => G' = G

\* C11: addNode and addEdge accept an id only when it is an integral number or
\* text; with any other id the call fails with InvalidIdentifier and changes
\* nothing.
C11_RejectsNonIntegral == [][RejectsNonIntegral]_vars

AcceptsNumberOrText ==
  last'.op \in {"addNode", "addEdge"} =>
    /\ last'.err = "ok" => \A id \in CallIds : IsNumber(id) \/ IsText(id)
    /\ last'.err = "InvalidIdentifier" =>
         /\ ~(IsNumber(last'.id) \/ IsText(last'.id))
         /\ G' = G

\* in the current state, the calls that would fail with InvalidIdentifier
InvalidIdentifierIffOtherKind ==
  /\ \A id \in Ids :
       (addNode(G, id, EmptyAttr).err = "InvalidIdentifier") <=> ~(IsNumber(id) \/ IsText(id))
  /\ \A u \in Ids, v \in Ids :
       (addEdge(G, u, v, EmptyAttr).err = "InvalidIdentifier")
         <=> ~((IsNumber(u) \/ IsText(u)) /\ (IsNumber(v) \/ IsText(v)))

\* C11 amended: addNode and addEdge accept an id exactly when it is a number,
\* integral or not, or text; with a boolean, null, undefined or an object the
\* call fails with InvalidIdentifier and changes nothing.
C11_AcceptsNumberOrText ==
  /\ []InvalidIdentifierIffOtherKind
  /\ [][AcceptsNumberOrText]_vars

C11_Witness ==
  /\ last.op = "addEdge"
  /\ last.err = "InvalidIdentifier"
  /\ last.id = TrueId
  /\ hasNode(G, F15)
  /\ hasEdge(G, F15, F15)

NumberOrText(id) == IsNumber(id) \/ IsText(id)

\* in the current state, the error of every addEdge call and the id it names
ChecksInOrder ==
  \A u \in Ids, v \in Ids :
    LET r == addEdge(G, u, v, EmptyAttr)
    IN /\ ~NumberOrText(u) => r.err = "InvalidIdentifier" /\ r.id = u
       /\ (NumberOrText(u) /\ ~NumberOrText(v)) => r.err = "InvalidIdentifier" /\ r.id = v
       /\ (NumberOrText(u) /\ NumberOrText(v) /\ ~hasNode(G, u)) =>
            r.err = "NodeNotFound" /\ r.id = u
       /\ (NumberOrText(u) /\ NumberOrText(v) /\ hasNode(G, u) /\ ~hasNode(G, v)) =>
            r.err = "NodeNotFound" /\ r.id = v

\* the error an addEdge call failed with and the id it named
FailedAddEdge ==
  (last'.op = "addEdge" /\ last'.err # "ok") =>
    /\ G' = G
    /\ last'.err = "InvalidIdentifier" => ~NumberOrText(last'.id)
    /\ last'.err = "NodeNotFound" => NumberOrText(last'.id) /\ ~hasNode(G, last'.id)
    /\ \E u \in Ids, v \in Ids :
         /\ last'.id \in {u, v}
         /\ addEdge(G, u, v, EmptyAttr).err = last'.err
         /\ addEdge(G, u, v, EmptyAttr).id = last'.id

OtherEdgesUnchanged(u, v) ==
  \A x \in ValidIds, y \in ValidIds :
    {x, y} # {u, v} =>
      /\ hasEdge(G', x, y) = hasEdge(G, x, y)
      /\ hasEdge(G, x, y) => edge(G', x, y) = edge(G, x, y)

RemoveEdgeRemovesOneEdge ==
  last'.op = "removeEdge" =>
    /\ last'.err \in {"ok", "EdgeNotFound"}
    /\ \A u \in Ids, v \in Ids :
         (removeEdge(G, u, v).err = "EdgeNotFound") <=> ~hasEdge(G, u, v)
    /\ last'.err = "EdgeNotFound" => G' = G
    /\ last'.err = "ok" =>
         LET u == last'.u
             v == last'.v
         IN /\ hasEdge(G, u, v)
            /\ v \notin neighbors(G', u) /\ u \notin neighbors(G', v)
            /\ ~hasEdge(G', u, v) /\ ~hasEdge(G', v, u)
            /\ _edgeKey(u, v) \notin DOMAIN edgesData'
            /\ edgeCall(G', u, v).err = "EdgeNotFound"
            /\ numberOfEdges(G') = numberOfEdges(G) - 1
            /\ DOMAIN adj' = DOMAIN adj
            /\ nodesData' = nodesData
            /\ OtherEdgesUnchanged(u, v)

\* C13: removeEdge(u, v) fails with EdgeNotFound unless hasEdge(u, v); on an
\* edge it removes both adjacency entries and the record, so that hasEdge is
\* false both ways, edge(u, v) fails, numberOfEdges() is one less, and the
\* nodes, their records and every other edge and its record are unchanged.
C13_RemoveEdgeRemovesOneEdge == [][RemoveEdgeRemovesOneEdge]_vars

Queries == {"hasNode", "hasEdge", "numberOfNodes", "numberOfEdges"}

\* a query returned, changed nothing, and its value is one the state gives
QueryReturns ==
  last'.op \in Queries =>
    /\ last'.err = "ok"
    /\ G' = G
    /\ last'.op = "hasNode" =>
         \E id \in Ids : last'.ret = Bool(id \in DOMAIN adj)
    /\ last'.op = "hasEdge" =>
         \E u \in Ids, v \in Ids : last'.ret = Bool(u \in DOMAIN adj /\ v \in adj[u])
    /\ last'.op = "numberOfNodes" => last'.ret = NumId(Cardinality(DOMAIN adj))
    /\ last'.op = "numberOfEdges" => last'.ret = NumId(Cardinality(DOMAIN edgesData))

\* in the current state, what the queries return for every argument
QueriesAnswer ==
  /\ \A id \in Ids : hasNodeCall(G, id) = Answer(G, Bool(id \in DOMAIN adj))
  /\ \A u \in Ids, v \in Ids :
       /\ u \notin DOMAIN adj => hasEdgeCall(G, u, v) = Answer(G, FalseId)
       /\ u \in DOMAIN adj => hasEdgeCall(G, u, v) = Answer(G, Bool(v \in neighbors(G, u)))
  /\ numberOfNodesCall(G).err = "ok" /\ numberOfNodesCall(G).g = G
  /\ numberOfEdgesCall(G).err = "ok" /\ numberOfEdgesCall(G).g = G

\* C14: hasNode, hasEdge, numberOfNodes and numberOfEdges never fail, for any
\* arguments, and change nothing; hasEdge(u, v) is false when u is not a node
\* and otherwise tells whether v is in u's neighbor set.
C14_QueriesNeverFail ==
  /\ []QueriesAnswer
  /\ [][QueryReturns]_vars

\* hasEdge has answered false on a graph that has an edge
C14_Witness ==
  /\ last.op = "hasEdge"
  /\ last.err = "ok"
  /\ last.ret = FalseId
  /\ \E u \in DOMAIN adj : neighbors(G, u) # {}
  /\ \E u \in DOMAIN adj, v \in InvalidIds : hasEdgeCall(G, u, v).ret = FalseId

SelfLoopsHandled ==
  /\ last'.op = "addEdge" =>
       \A u \in ValidIds : hasNode(G, u) => addEdge(G, u, u, EmptyAttr).err = "ok"
  /\ (Did("addEdge") /\ last'.u = last'.v) =>
       LET u == last'.u
       IN /\ hasNode(G, u)
          /\ u \in neighbors(G', u)
          /\ hasEdge(G', u, u)
          /\ edge(G', u, u) # Undefined
          /\ ~hasEdge(G, u, u) => numberOfEdges(G') = numberOfEdges(G) + 1
  /\ (Did("removeEdge") /\ last'.u = last'.v) =>
       LET u == last'.u
       IN /\ u \notin neighbors(G', u)
          /\ _edgeKey(u, u) \notin DOMAIN edgesData'
  /\ (Did("removeNode") /\ hasEdge(G, last'.u, last'.u)) =>
       LET u == last'.u
       IN /\ ~hasNode(G', u)
          /\ \A v \in neighbors(G, u) :
               /\ _edgeKey(u, v) \notin DOMAIN edgesData'
               /\ v # u => u \notin neighbors(G', v)
          /\ u \notin AdjacencyRefs(G')

\* C15: addEdge(u, u) on a node succeeds, makes u its own neighbor and stores
\* one record (numberOfEdges() grows by one); removeEdge(u, u) and
\* removeNode(u) remove that record and adjacency entry, and removeNode(u) with
\* a self-loop and other neighbors removes every incident edge.
C15_SelfLoopsHandled == [][SelfLoopsHandled]_vars

\* the fields node(id) and edge(u, v) show are as they were
NodeRecordKept(id) == heap'[nodeRef(G', id)] = heap[nodeRef(G, id)]
EdgeRecordKept(u, v) == heap'[edgeRef(G', u, v)] = heap[edgeRef(G, u, v)]

StoresACopy ==
  /\ Did("addNode") =>
       /\ nodeRef(G', last'.u) # CallerAttrs
       /\ nodeRef(G', last'.u) \notin DOMAIN heap
  /\ (Did("addEdge") /\ ~hasEdge(G, last'.u, last'.v)) =>
       /\ edgeRef(G', last'.u, last'.v) # CallerAttrs
       /\ edgeRef(G', last'.u, last'.v) \notin DOMAIN heap
  /\ Did("editAttrs") =>
       /\ \A id \in DOMAIN adj : NodeRecordKept(id)
       /\ \A u \in DOMAIN adj, v \in DOMAIN adj : hasEdge(G, u, v) => EdgeRecordKept(u, v)
  /\ Did("editNode") =>
       /\ heap'[CallerAttrs] = heap[CallerAttrs]
       /\ \A id \in DOMAIN adj : id # last'.u => NodeRecordKept(id)
       /\ \A u \in DOMAIN adj, v \in DOMAIN adj : hasEdge(G, u, v) => EdgeRecordKept(u, v)
  /\ Did("editEdge") =>
       /\ heap'[CallerAttrs] = heap[CallerAttrs]
       /\ \A id \in DOMAIN adj : NodeRecordKept(id)
       /\ \A u \in DOMAIN adj, v \in DOMAIN adj :
            (hasEdge(G, u, v) /\ {u, v} # {last'.u, last'.v}) => EdgeRecordKept(u, v)

\* C16: addNode and a first addEdge store a new object, not the caller's: a
\* later change of the caller's attrs object changes no stored record, and the
\* records of two nodes or two edges are different objects, so that editing
\* one changes no other.
C16_StoresACopy == [][StoresACopy]_vars

\* the unordered pairs {u, v} of nodes with hasEdge(u, v)
EdgePairs(g) ==
  {p \in {{u, v} : u \in DOMAIN g.adj, v \in DOMAIN g.adj} :
     \E u \in p, v \in p : p = {u, v} /\ hasEdge(g, u, v)}

\* C17: for all nodes u and v a record is stored under the key of {u, v}
\* exactly when v is in u's neighbor set; edge(u, v) is a record whenever
\* hasEdge(u, v), and numberOfEdges() is the number of unordered pairs {u, v}
\* with hasEdge(u, v).
C17_RecordsMatchAdjacency ==
  /\ \A u \in DOMAIN adj, v \in DOMAIN adj :
       /\ (_edgeKey(u, v) \in DOMAIN edgesData) <=> (v \in neighbors(G, u))
       /\ hasEdge(G, u, v) => edge(G, u, v) # Undefined
  /\ numberOfEdges(G) = Cardinality(EdgePairs(G))

\* C18: for all ids u, v, x, y the graph has accepted as nodes, _edgeKey(u, v)
\* is _edgeKey(v, u), and _edgeKey(u, v) is _edgeKey(x, y) only when {u, v} is
\* {x, y}: two different edges never share one attribute record.
C18_KeyIdentifiesPair ==
  \A u \in DOMAIN adj, v \in DOMAIN adj :
    /\ _edgeKey(u, v) = _edgeKey(v, u)
    /\ \A x \in DOMAIN adj, y \in DOMAIN adj :
         _edgeKey(u, v) = _edgeKey(x, y) => {u, v} = {x, y}

NoDataSurvives ==
  /\ (Did("addEdge") /\ {last'.u, last'.v} \in removed.edges) =>
       /\ ~hasEdge(G, last'.u, last'.v)
       /\ edge(G', last'.u, last'.v) = last'.attr
  /\ (Did("addNode") /\ last'.u \in removed.nodes) =>
       /\ nodesData'[last'.u] = last'.attr
       /\ neighbors(G', last'.u) = {}

\* C19: an edge removed by removeEdge or by removeNode of an endpoint and
\* later created again by addEdge(u, v, attrs) has exactly the fields of
\* attrs, and a node removed and later added again by addNode(a, attrs) has
\* exactly attrs and no neighbors.
C19_NoDataSurvives == [][NoDataSurvives]_vars

====
